---- MODULE Spec2Model ----
(***************************************************************************)
(* State-machine model of the isgd-ap-timer web application.               *)
(*                                                                         *)
(* The repository holds three builds of the same application:              *)
(*   "app"    src/app.js                      arrow pickers, modes isgd/ap  *)
(*   "drum"   src/unnamed/part_000:1-488      drum pickers, isgd/ap/triple  *)
(*   "arrows" src/unnamed/part_000:490-818    arrow pickers, isgd/ap/triple *)
(* The build is chosen in Init and never changes.  Every event handler of   *)
(* the page is one action; an action runs the whole handler, including the  *)
(* methods it calls.  A click on a control inside a card runs the          *)
(* control's listener and then, bubbling, the card's listener, in one step. *)
(*                                                                         *)
(* What the markup (not part of the sources) is taken to be:                *)
(*   - the page opens on the mode-selection screen;                         *)
(*   - mode toggle buttons exist on the cards of app.js and on the cards    *)
(*     built from the 'triple' template (part_000:275, 583);                *)
(*   - toggle buttons carry data-mode "down" or "up";                       *)
(*   - the start, stop and reset buttons carry the class 'ctrl-btn', which  *)
(*     the card's listener skips; toggle buttons and picker arrows do not;  *)
(*   - an element carrying the class 'hidden' receives no new pointer       *)
(*     gesture;                                                             *)
(*   - a drum gesture ends without a click on the card (touchstart and      *)
(*     mousedown call preventDefault; a click that a mouse gesture may      *)
(*     still produce is the step Acknowledge).                              *)
(***************************************************************************)
EXTENDS Integers, Sequences, FiniteSets, TLC

VARIABLES
    variant,    \* which build runs: "app", "drum" or "arrows"
    audioOk,    \* whether the platform can construct an AudioContext
    now,        \* Date.now(), in milliseconds
    screen,     \* "select" or the key of the mode on the timer screen
    timers,     \* the `timers` array: ids of the Timer objects on screen
    objs,       \* every Timer object constructed so far, by id
    registry,   \* the callbacks registered with setInterval and not cleared
    alarm,      \* the AlarmSound singleton
    drag,       \* the drum pickers whose isDragging is true: <<timer, unit>>
    last,       \* the handler that ran last: [op, t, arg, threw]; t is the timer
                \* it ran on or, for a screen switch, the number of running
                \* or alarming timers the switch destroyed
    resume,     \* history of the last stop() that ended a run: [t, v, t1], the
                \* timer, its totalSeconds at that stop and the clock at the
                \* start() that followed (-1 before it); t = 0 when there is
                \* none or an input other than start() came after it
    setBacks,   \* how many times the wall clock was set back
    worker,     \* the service worker, followed under SpecWorker only: [cache,
                \* puts, fetched, served], the response the cache holds for
                \* each request, the cache.put calls not yet carried out, the
                \* number of network responses so far and the last response
                \* handed to a caller
    sound       \* the tones of the AlarmSound, followed under SpecAlarm only:
                \* [oscillators, nodes, timeouts, made], the ids in
                \* this.oscillators, the oscillator nodes started and not yet
                \* ended, the pending setTimeout callbacks and the number of
                \* oscillators created so far

vars == <<variant, audioOk, now, screen, timers, objs, registry, alarm, drag, last, resume,
          setBacks, sound, worker>>

----------------------------------------------------------------------------
(* Bounds of the model *)

\* Spec: the user works the first card of each screen.
\* Cards of a screen that receive events.
MaxOperated == 1
\* Timer objects constructed in one behaviour.
MaxObjs == 4
\* Clock advances in one behaviour.
MaxClockSteps == 4
\* Largest duration, in seconds, the pickers are driven to.
MaxTarget == 2

\* SpecCards: the user works several cards, over a shorter time.
CardsOperated == 2
CardsMaxObjs == 3
CardsClockSteps == 2
CardsMaxTarget == 1

\* Drum gestures in progress at once.
MaxDrags == 1

\* SpecWallClock: times the wall clock is set back in one behaviour.
MaxSetBacks == 1

\* SpecPicker: the duration inputs of one card over the pickers' whole range.
PickerMaxObjs == 1
\* How far past either end of a drum a gesture is released.
RawSlack == 1

\* SpecLive: one card, followed until its run ends.
LiveMaxObjs == 2
LiveClockSteps == 4
LiveMaxTarget == 2

\* SpecAlarm: oscillators created in one behaviour.
MaxTones == 3

\* SpecWorker: network responses in one behaviour.
MaxFetches == 3

\* A profile: the bounds one specification runs under.
OneCard == [operated |-> MaxOperated, objs |-> MaxObjs,
            clock |-> MaxClockSteps, target |-> MaxTarget]
AllCards == [operated |-> CardsOperated, objs |-> CardsMaxObjs,
             clock |-> CardsClockSteps, target |-> CardsMaxTarget]

(* Program constants *)

\* The period of the interval start() registers, in milliseconds.
IntervalMs == 250
\* One clock advance, in milliseconds: two periods, so that a tick can fall
\* on a half second.
ClockStepMs == 2 * IntervalMs
MaxHours == 23
MaxMinSec == 59

LiveCard == [operated |-> 1, objs |-> LiveMaxObjs,
             clock |-> LiveClockSteps, target |-> LiveMaxTarget]

\* The profile of SpecPicker: no bound on the duration below the pickers' own.
Picker == [operated |-> 1, objs |-> PickerMaxObjs, clock |-> 0,
           target |-> MaxHours * 3600 + MaxMinSec * 60 + MaxMinSec]

Variants == {"app", "drum", "arrows"}
Units == {"h", "m", "s"}
TimerModes == {"down", "up"}

Max(a, b) == IF a >= b THEN a ELSE b
Min(a, b) == IF a <= b THEN a ELSE b

\* MODES: the number of cards of a mode key; 0 for a key the build lacks.
ModeCount(v, key) ==
    CASE key = "isgd" -> 1
      [] key = "ap" -> 2
      [] key = "triple" -> IF v = "app" THEN 0 ELSE 3
      [] OTHER -> 0

ModeKeys == {"isgd", "ap", "triple"}

\* cfg.template === 'triple' (allowCountUp); app.js has one template.
HasToggle(v, key) == v = "app" \/ key = "triple"

----------------------------------------------------------------------------
(* The display text, as the three numbers it is built from. *)

\* The text the template ships with, before the program writes it: a value
\* that _updateDisplay never writes (its seconds are a remainder by 60).
NoText == <<0, 0, 60>>

\* JavaScript's % : the remainder takes the sign of the dividend.
JsRem(a, b) == IF a >= 0 THEN a % b ELSE -((-a) % b)

\* Timer._updateDisplay: h = floor(t/3600), m = floor((t%3600)/60), s = t%60.
DisplayOf(t) == <<t \div 3600, JsRem(t, 3600) \div 60, JsRem(t, 60)>>

updateDisplay(o) == [o EXCEPT !.display = DisplayOf(o.totalSeconds)]

----------------------------------------------------------------------------
(* AlarmSound *)

\* AlarmSound.init raises when no AudioContext can be constructed.
InitRaises(a, ok) == ~a.ctx /\ ~ok

\* AlarmSound.init, when it does not raise: the context exists afterwards.
AlarmInit(a) == [a EXCEPT !.ctx = TRUE]

\* AlarmSound.play after a successful init.
AlarmPlay(a) == IF a.playing THEN a ELSE [a EXCEPT !.playing = TRUE]

\* AlarmSound.stop.
AlarmStop(a) == [a EXCEPT !.playing = FALSE]

\* The timers' specifications follow the alarm by ctx and playing alone.  The
\* operators below are the same methods with the tones they create.

\* AlarmSound._beepLoop: one oscillator, started and pushed on the list.
beepLoop(playing, snd) ==
    IF ~playing THEN snd
    ELSE [snd EXCEPT !.made = @ + 1,
                     !.oscillators = @ \cup {snd.made + 1},
                     !.nodes = @ \cup {snd.made + 1}]

\* AlarmSound.play after a successful init: the tones it leaves.
playRestartsLoop(a, snd) == beepLoop(TRUE, snd)
playTones(a, snd) == IF a.playing THEN snd ELSE beepLoop(TRUE, snd)

\* AlarmSound.stop: every listed oscillator is stopped and the list emptied;
\* a stopped node ends later, when its onended runs.
stopTones(snd) == [snd EXCEPT !.oscillators = {}]

\* osc.onended of node n: the node leaves the list and, while playing, the
\* next _beepLoop is scheduled.
onended(a, snd, n) ==
    [snd EXCEPT !.nodes = @ \ {n},
                !.oscillators = @ \ {n},
                !.timeouts = IF a.playing THEN @ + 1 ELSE @]

\* The setTimeout callback: _beepLoop.
onTimeout(a, snd) == beepLoop(a.playing, [snd EXCEPT !.timeouts = @ - 1])

----------------------------------------------------------------------------
(* The service worker.  A response is the number of the network fetch that  *)
(* produced it; the copies cached at install are response 0.                *)

\* The requests the page makes: one of ASSETS and one outside it.
Requests == {"asset", "other"}
Assets == {"asset"}

\* What caches.match resolves to when nothing matches.
NoResponse == -1

\* The install handler: cache.addAll(ASSETS), awaited by event.waitUntil.
Installed == [r \in Requests |-> IF r \in Assets THEN 0 ELSE NoResponse]

\* The fetch handler, network fetch fulfilled with response k: the clone's
\* cache.put is handed to caches.open(..).then(..), which nothing awaits, and
\* the response is returned.
fetchThen(wk, r) ==
    LET k == wk.fetched + 1
    IN [wk EXCEPT !.fetched = k,
                  !.puts = @ \cup {<<r, k>>},
                  !.served = [req |-> r, from |-> "network", v |-> k]]

\* The fetch handler, network fetch rejected: caches.match(event.request).
fetchCatch(wk, r) ==
    [wk EXCEPT !.served = [req |-> r, from |-> "cache", v |-> wk.cache[r]]]

\* cache.put(event.request, clone) is carried out.
cachePut(wk, r, k) ==
    [wk EXCEPT !.cache[r] = k, !.puts = @ \ {<<r, k>>}]

----------------------------------------------------------------------------
(* Timer.  A world w is [objs, registry, alarm, threw]: the part of the     *)
(* state a handler works on; threw is set when the handler ends by an       *)
(* uncaught exception.                                                      *)

World == [objs |-> objs, registry |-> registry, alarm |-> alarm, threw |-> FALSE]

\* new Timer(card, index[, allowCountUp]).  The drum build's pickers call
\* scrollToValue(0) -> onChange(0) -> _syncFromPicker, and it writes no text.
NewTimer(v) ==
    [mode |-> "down", running |-> FALSE, intervalId |-> 0,
     totalSeconds |-> 0, targetSeconds |-> 0,
     setH |-> 0, setM |-> 0, setS |-> 0,
     alarming |-> FALSE, hidden |-> FALSE,
     display |-> IF v = "drum" THEN NoText ELSE DisplayOf(0)]

\* setInterval's handle: the least positive id not in use.
FreshId(reg) == CHOOSE k \in 1..(Cardinality(reg) + 1) : \A e \in reg : e.id # k

\* clearInterval(id)
clearInterval(reg, id) == {e \in reg : e.id # id}

\* Timer._updatePickerVisibility (arrows build): hidden iff mode is 'up'.
updatePickerVisibility(o) == [o EXCEPT !.hidden = (o.mode = "up")]

\* Timer.stop
stopKeepsInterval(v, w, i) ==
    LET o == w.objs[i] IN
    IF ~o.running THEN w
    ELSE [w EXCEPT !.objs[i] = [o EXCEPT !.running = FALSE, !.intervalId = 0]]

stopRestoresTarget(v, w, i) ==
    LET o == w.objs[i] IN
    IF ~o.running THEN w
    ELSE [w EXCEPT !.objs[i] = [o EXCEPT !.running = FALSE, !.intervalId = 0,
                                         !.totalSeconds = o.targetSeconds],
                   !.registry = clearInterval(w.registry, o.intervalId)]

stop(v, w, i) ==
    LET o == w.objs[i] IN
    IF ~o.running THEN w
    ELSE LET o1 == [o EXCEPT !.running = FALSE, !.intervalId = 0]
             o2 == IF v = "arrows" THEN updatePickerVisibility(o1) ELSE o1
         IN [w EXCEPT !.objs[i] = o2,
                      !.registry = clearInterval(w.registry, o.intervalId)]

\* Timer.stopAlarm
stopAlarmKeepsSound(w, i) == [w EXCEPT !.objs[i].alarming = FALSE]

stopAlarm(w, i) ==
    [w EXCEPT !.objs[i].alarming = FALSE, !.alarm = AlarmStop(w.alarm)]

\* Timer._syncFromPicker
syncFromPickerHoursAsMinutes(o) ==
    LET t == o.setH * 60 + o.setM * 60 + o.setS
    IN [o EXCEPT !.targetSeconds = t, !.totalSeconds = t]

syncFromPicker(o) ==
    LET t == o.setH * 3600 + o.setM * 60 + o.setS
    IN [o EXCEPT !.targetSeconds = t, !.totalSeconds = t]

\* Timer._showPicker (drum build): shows the pickers and scrolls each to its
\* value, which calls onChange and so _syncFromPicker.
showPicker(o) == syncFromPicker([o EXCEPT !.hidden = FALSE])

\* Timer.reset
resetKeepsTotal(v, w, i) == stop(v, stopAlarm(w, i), i)

reset(v, w, i) ==
    LET w1 == stop(v, stopAlarm(w, i), i)
        o == w1.objs[i]
        o1 == IF o.mode = "down"
              THEN LET d == [o EXCEPT !.totalSeconds = o.targetSeconds]
                   IN CASE v = "app" -> updateDisplay([d EXCEPT !.hidden = FALSE])
                        [] v = "drum" -> showPicker(d)
                        [] OTHER -> updateDisplay(updatePickerVisibility(d))
              ELSE LET u == [o EXCEPT !.totalSeconds = 0]
                   IN CASE v = "app" -> updateDisplay(u)
                        [] v = "drum" -> updateDisplay([u EXCEPT !.hidden = TRUE])
                        [] OTHER -> updateDisplay(updatePickerVisibility(u))
    IN [w1 EXCEPT !.objs[i] = o1]

\* Timer._triggerAlarm; alarm.play() is its last statement.
triggerAlarmNoStop(v, w, i, ok) ==
    LET o == w.objs[i]
        o1 == [updateDisplay([o EXCEPT !.totalSeconds = 0]) EXCEPT !.alarming = TRUE]
        w2 == [w EXCEPT !.objs[i] = o1]
    IN IF InitRaises(w2.alarm, ok)
       THEN [w2 EXCEPT !.threw = TRUE]
       ELSE [w2 EXCEPT !.alarm = AlarmPlay(AlarmInit(w2.alarm))]

triggerAlarm(v, w, i, ok) ==
    LET w1 == stop(v, w, i)
        o == w1.objs[i]
        o1 == [updateDisplay([o EXCEPT !.totalSeconds = 0]) EXCEPT !.alarming = TRUE]
        w2 == [w1 EXCEPT !.objs[i] = o1]
    IN IF InitRaises(w2.alarm, ok)
       THEN [w2 EXCEPT !.threw = TRUE]
       ELSE [w2 EXCEPT !.alarm = AlarmPlay(AlarmInit(w2.alarm))]

\* Timer.destroy
destroyKeepsInterval(v, w, i) == stopAlarm(w, i)
destroy(v, w, i) == stop(v, stopAlarm(w, i), i)

\* timers.forEach(t => t.destroy())
RECURSIVE destroyAll(_, _, _)
destroyAll(v, w, ids) ==
    IF ids = <<>> THEN w
    ELSE destroyAll(v, destroy(v, w, Head(ids)), Tail(ids))

\* Math.floor((Date.now() - startTime) / 1000)
Elapsed(t, startTime) == (t - startTime) \div 1000

\* The value the interval callback assigns to totalSeconds.
TickSecondsPerTick(mode, cur, startSeconds, elapsed) ==
    IF mode = "up" THEN cur + 1 ELSE Max(0, cur - 1)
TickSeconds(mode, cur, startSeconds, elapsed) ==
    IF mode = "up" THEN startSeconds + elapsed ELSE Max(0, startSeconds - elapsed)

\* The callback start() registers, run for registry entry e at time t.
tickWithoutExpiry(v, w, e, t, ok) ==
    LET i == e.owner
        o == w.objs[i]
        s == TickSeconds(o.mode, o.totalSeconds, e.startSeconds, Elapsed(t, e.startTime))
    IN [w EXCEPT !.objs[i] = updateDisplay([o EXCEPT !.totalSeconds = s])]

tickAlarmsInEitherMode(v, w, e, t, ok) ==
    LET i == e.owner
        o == w.objs[i]
        s == TickSeconds(o.mode, o.totalSeconds, e.startSeconds, Elapsed(t, e.startTime))
        o1 == [o EXCEPT !.totalSeconds = s]
        w1 == [w EXCEPT !.objs[i] = o1]
    IN IF s <= 0
       THEN triggerAlarm(v, w1, i, ok)
       ELSE [w1 EXCEPT !.objs[i] = updateDisplay(o1)]

tick(v, w, e, t, ok) ==
    LET i == e.owner
        o == w.objs[i]
        s == TickSeconds(o.mode, o.totalSeconds, e.startSeconds, Elapsed(t, e.startTime))
        o1 == [o EXCEPT !.totalSeconds = s]
        w1 == [w EXCEPT !.objs[i] = o1]
    IN IF o.mode # "up" /\ s <= 0
       THEN triggerAlarm(v, w1, i, ok)
       ELSE [w1 EXCEPT !.objs[i] = updateDisplay(o1)]

\* Whether start() passes its guards (after alarm.init()).
StartGuardNoZero(o) == ~o.running
StartGuardNoRunning(o) == ~(o.mode = "down" /\ o.totalSeconds <= 0)
StartGuard(o) == ~o.running /\ ~(o.mode = "down" /\ o.totalSeconds <= 0)

\* Timer.start at time t; alarm.init() is its first statement.
startFromTarget(v, w, i, t, ok) ==
    IF InitRaises(w.alarm, ok) THEN [w EXCEPT !.threw = TRUE]
    ELSE LET w1 == [w EXCEPT !.alarm = AlarmInit(w.alarm)]
             o == w1.objs[i]
         IN IF ~StartGuard(o) THEN w1
            ELSE LET id == FreshId(w1.registry)
                     o1 == [o EXCEPT !.running = TRUE, !.hidden = TRUE,
                                     !.intervalId = id]
                     o2 == IF v = "drum" THEN updateDisplay(o1) ELSE o1
                 IN [w1 EXCEPT !.objs[i] = o2,
                               !.registry = w1.registry \cup
                                   {[id |-> id, owner |-> i, startTime |-> t,
                                     startSeconds |-> o.targetSeconds]}]

start(v, w, i, t, ok) ==
    IF InitRaises(w.alarm, ok) THEN [w EXCEPT !.threw = TRUE]
    ELSE LET w1 == [w EXCEPT !.alarm = AlarmInit(w.alarm)]
             o == w1.objs[i]
         IN IF ~StartGuard(o) THEN w1
            ELSE LET id == FreshId(w1.registry)
                     o1 == [o EXCEPT !.running = TRUE, !.hidden = TRUE,
                                     !.intervalId = id]
                     o2 == IF v = "drum" THEN updateDisplay(o1) ELSE o1
                 IN [w1 EXCEPT !.objs[i] = o2,
                               !.registry = w1.registry \cup
                                   {[id |-> id, owner |-> i, startTime |-> t,
                                     startSeconds |-> o.totalSeconds]}]

\* The wrap of one picker unit: (value + dir + max + 1) % (max + 1).
WrapClamps(val, dir, max) == Max(0, Min(max, val + dir))
UnitMax(unit) == IF unit = "h" THEN MaxHours ELSE MaxMinSec
Wrap(val, dir, max) == (val + dir + max + 1) % (max + 1)

SetUnit(o, unit, val) ==
    CASE unit = "h" -> [o EXCEPT !.setH = val]
      [] unit = "m" -> [o EXCEPT !.setM = val]
      [] OTHER -> [o EXCEPT !.setS = val]

GetUnit(o, unit) ==
    CASE unit = "h" -> o.setH
      [] unit = "m" -> o.setM
      [] OTHER -> o.setS

\* Timer._adjustPicker (arrow builds)
adjustPicker(o, unit, dir) ==
    updateDisplay(syncFromPicker(
        SetUnit(o, unit, Wrap(GetUnit(o, unit), dir, UnitMax(unit)))))

\* The card's click listener: tapping an alarming card stops the alarm.
cardClick(w, i) == IF w.objs[i].alarming THEN stopAlarm(w, i) ELSE w

\* A picker arrow's own click listener.
arrowClick(w, i, unit, dir) ==
    IF w.objs[i].running THEN w
    ELSE [w EXCEPT !.objs[i] = adjustPicker(w.objs[i], unit, dir)]

\* A mode toggle button's own click listener.
toggleClickUnguarded(v, w, i, m) ==
    LET o == [w.objs[i] EXCEPT !.mode = m]
        o1 == IF v = "app" THEN [o EXCEPT !.hidden = (m = "up")]
              ELSE IF v = "arrows" THEN updatePickerVisibility(o) ELSE o
    IN reset(v, [w EXCEPT !.objs[i] = o1], i)

toggleClick(v, w, i, m) ==
    IF w.objs[i].running THEN w
    ELSE LET o == [w.objs[i] EXCEPT !.mode = m]
             o1 == IF v = "app" THEN [o EXCEPT !.hidden = (m = "up")]
                   ELSE IF v = "arrows" THEN updatePickerVisibility(o) ELSE o
         IN reset(v, [w EXCEPT !.objs[i] = o1], i)

\* DrumPicker.scrollToValue(val) -> onChange(val) -> set unit, _syncFromPicker
scrollToValue(o, unit, val) == syncFromPicker(SetUnit(o, unit, val))

\* DrumPicker.snapToNearest: the item a release at position raw (in items)
\* snaps to.
snapToNearest(raw, max) == Max(0, Min(max, raw))

----------------------------------------------------------------------------
(* The state machine *)

Live == {timers[k] : k \in 1..Len(timers)}
Destroyed == (1..Len(objs)) \ Live

\* The cards that receive events under profile p.
Operated(p) == {timers[k] : k \in 1..(IF Len(timers) < p.operated THEN Len(timers) ELSE p.operated)}

\* A Timer nothing refers to any more: its card is out of the document, no
\* interval callback and no gesture in progress holds it.
Collected ==
    [mode |-> "down", running |-> FALSE, intervalId |-> 0,
     totalSeconds |-> 0, targetSeconds |-> 0,
     setH |-> 0, setM |-> 0, setS |-> 0,
     alarming |-> FALSE, hidden |-> TRUE, display |-> NoText]

\* Garbage collection of the Timers that left the screen.
Collect(os, tms, reg, dr) ==
    [i \in 1..Len(os) |->
        IF /\ \A k \in 1..Len(tms) : tms[k] # i
           /\ \A e \in reg : e.owner # i
           /\ \A d \in dr : d[1] # i
        THEN Collected ELSE os[i]]

NoOp == [op |-> "none", t |-> 0, arg |-> "", threw |-> FALSE]
NoResume == [t |-> 0, v |-> 0, t1 |-> -1]
\* An input on timer i other than stop() and start() ends the history.
Forget(i) == resume' = IF resume.t = i THEN NoResume ELSE resume

Init ==
    /\ variant \in Variants
    /\ audioOk \in BOOLEAN
    /\ now = 0
    /\ screen = "select"
    /\ timers = <<>>
    /\ objs = <<>>
    /\ registry = {}
    /\ alarm = [ctx |-> FALSE, playing |-> FALSE]
    /\ drag = {}
    /\ last = NoOp
    /\ resume = NoResume
    /\ setBacks = 0
    /\ sound = [oscillators |-> {}, nodes |-> {}, timeouts |-> 0, made |-> 0]
    /\ worker = [cache |-> Installed, puts |-> {}, fetched |-> 0,
                 served |-> [req |-> "", from |-> "", v |-> NoResponse]]

\* Commit the world a handler leaves behind.
Commit(w, op, i, arg) ==
    /\ objs' = Collect(w.objs, timers', w.registry, drag')
    /\ registry' = w.registry
    /\ alarm' = w.alarm
    /\ last' = [op |-> op, t |-> i, arg |-> arg, threw |-> w.threw]
    /\ UNCHANGED <<sound, worker>>

\* Date.now() moves on.
AdvanceClock(p) ==
    /\ now + ClockStepMs <= p.clock * ClockStepMs
    /\ now' = now + ClockStepMs
    /\ last' = [op |-> "clock", t |-> 0, arg |-> "", threw |-> FALSE]
    /\ UNCHANGED <<variant, audioOk, screen, timers, objs, registry, alarm, drag, resume,
                   setBacks, sound, worker>>

\* Date.now() is the wall clock: the system's time is set back (by the user
\* or by a time synchronisation) to an earlier reading.
SetClockBack(p) ==
    /\ setBacks < MaxSetBacks
    /\ setBacks' = setBacks + 1
    /\ \E k \in 0..p.clock : k * ClockStepMs < now /\ now' = k * ClockStepMs
    /\ last' = [op |-> "clockback", t |-> 0, arg |-> "", threw |-> FALSE]
    /\ UNCHANGED <<variant, audioOk, screen, timers, objs, registry, alarm, drag, resume,
                   sound, worker>>

\* A registered interval callback fires.
Tick(e) ==
    /\ now - e.startTime >= IntervalMs
    /\ UNCHANGED <<variant, audioOk, now, screen, timers, drag, setBacks>>
    /\ LET w == tick(variant, World, e, now, audioOk)
       IN /\ Commit(w, "tick", e.owner, "")
          /\ resume' = IF resume.t = e.owner /\ ~w.objs[e.owner].running
                        THEN NoResume ELSE resume

\* A registered interval callback fires after the wall clock was set back
\* behind the start of the run: setInterval does not follow Date.now().
TickBehind(e) ==
    /\ now < e.startTime
    /\ UNCHANGED <<variant, audioOk, now, screen, timers, drag, setBacks>>
    /\ LET w == tick(variant, World, e, now, audioOk)
       IN /\ Commit(w, "tick", e.owner, "")
          /\ resume' = IF resume.t = e.owner /\ ~w.objs[e.owner].running
                        THEN NoResume ELSE resume

\* Click on the start button.
Start(i) ==
    /\ UNCHANGED <<variant, audioOk, now, screen, timers, drag, setBacks>>
    /\ LET w == start(variant, World, i, now, audioOk)
       IN /\ Commit(w, "start", i, "")
          /\ resume' = IF resume.t = i /\ resume.t1 < 0 /\ w.objs[i].running
                        THEN [resume EXCEPT !.t1 = now] ELSE resume

\* Click on the stop button.
Stop(i) ==
    /\ UNCHANGED <<variant, audioOk, now, screen, timers, drag, setBacks>>
    /\ Commit(stop(variant, World, i), "stop", i, "")
    /\ resume' = IF objs[i].running
                  THEN [t |-> i, v |-> objs[i].totalSeconds, t1 |-> -1]
                  ELSE resume

\* Click on the reset button.
Reset(i) ==
    /\ UNCHANGED <<variant, audioOk, now, screen, timers, drag, setBacks>>
    /\ Commit(reset(variant, World, i), "reset", i, "")
    /\ Forget(i)

\* Click on the card outside its controls.
Acknowledge(i) ==
    /\ UNCHANGED <<variant, audioOk, now, screen, timers, drag, setBacks>>
    /\ Commit(cardClick(World, i), "ack", i, "")
    /\ UNCHANGED resume

\* Click on a mode toggle button: the button's listener, then the card's.
ToggleMode(i, m) ==
    /\ HasToggle(variant, screen)
    /\ UNCHANGED <<variant, audioOk, now, screen, timers, drag, setBacks>>
    /\ Commit(cardClick(toggleClick(variant, World, i, m), i), "toggle", i, m)
    /\ Forget(i)

\* What last.arg records of an arrow click: the unit and the direction.
ArrowArg(unit, dir) == unit \o (IF dir = 1 THEN "+" ELSE "-")

\* Click on a picker arrow (arrow builds), while the arrows are shown: the
\* arrow's listener, then the card's.
ArrowClick(p, i, unit, dir) ==
    /\ variant # "drum"
    /\ ~objs[i].hidden
    /\ UNCHANGED <<variant, audioOk, now, screen, timers, drag, setBacks>>
    /\ LET w == cardClick(arrowClick(World, i, unit, dir), i)
       IN /\ w.objs[i].targetSeconds <= p.target
          /\ Commit(w, "arrow", i, ArrowArg(unit, dir))
          /\ Forget(i)

\* touchstart / mousedown on a drum picker, while the pickers are shown.
DragStart(i, unit) ==
    /\ variant = "drum"
    /\ ~objs[i].hidden
    /\ <<i, unit>> \notin drag
    /\ Cardinality(drag) < MaxDrags
    /\ drag' = drag \cup {<<i, unit>>}
    /\ last' = [op |-> "dragstart", t |-> i, arg |-> unit, threw |-> FALSE]
    /\ UNCHANGED <<variant, audioOk, now, screen, timers, objs, registry, alarm, resume,
                   setBacks, sound, worker>>

\* touchend / touchcancel / mouseup: onEnd snaps the picker to a value.
DragEnd(p, i, unit, val) ==
    /\ <<i, unit>> \in drag
    /\ val <= UnitMax(unit)
    /\ drag' = drag \ {<<i, unit>>}
    /\ UNCHANGED <<variant, audioOk, now, screen, timers, setBacks>>
    /\ LET o == scrollToValue(objs[i], unit, val)
       IN /\ o.targetSeconds <= p.target
          /\ Commit([World EXCEPT !.objs[i] = o], "dragend", i, unit)
          /\ Forget(i)

\* A drum gesture released at position raw, which onEnd snaps to an item.
DragEndRaw(p, i, unit, raw) == DragEnd(p, i, unit, snapToNearest(raw, UnitMax(unit)))

RECURSIVE NewTimers(_, _)
NewTimers(v, n) == IF n = 0 THEN <<>> ELSE Append(NewTimers(v, n - 1), NewTimer(v))

\* The timers of the screen that are running or alarming.
Busy == Cardinality({i \in Live : objs[i].running \/ objs[i].alarming})

\* showTimerScreen(modeKey)
ShowTimerScreen(p, key) ==
    LET n == ModeCount(variant, key)
        w == destroyAll(variant, World, timers)
    IN /\ n > 0
       /\ Len(objs) + n <= p.objs
       /\ screen' = key
       /\ timers' = [k \in 1..n |-> Len(objs) + k]
       /\ UNCHANGED <<variant, audioOk, now, drag, setBacks>>
       /\ Commit([w EXCEPT !.objs = w.objs \o NewTimers(variant, n)], "show", Busy, key)
       /\ resume' = NoResume

\* showModeSelect()
ShowModeSelect ==
    LET w == destroyAll(variant, World, timers)
    IN /\ screen' = "select"
       /\ timers' = <<>>
       /\ UNCHANGED <<variant, audioOk, now, drag, setBacks>>
       /\ Commit(w, "select", Busy, "")
       /\ resume' = NoResume

NextP(p) ==
    \/ AdvanceClock(p)
    \/ \E e \in registry : Tick(e)
    \/ \E i \in Operated(p) : Start(i)
    \/ \E i \in Operated(p) : Stop(i)
    \/ \E i \in Operated(p) : Reset(i)
    \/ \E i \in Operated(p) : Acknowledge(i)
    \/ \E i \in Operated(p), m \in TimerModes : ToggleMode(i, m)
    \/ \E i \in Operated(p), unit \in Units, dir \in {-1, 1} : ArrowClick(p, i, unit, dir)
    \/ \E i \in Operated(p), unit \in Units : DragStart(i, unit)
    \/ \E i \in 1..Len(objs), unit \in Units, val \in 0..p.target : DragEnd(p, i, unit, val)
    \/ \E key \in ModeKeys : ShowTimerScreen(p, key)
    \/ ShowModeSelect

Next == NextP(OneCard)
NextCards == NextP(AllCards)

\* The user works one card of each screen.
Spec == Init /\ [][Next]_vars
\* The user works several cards of each screen.
SpecCards == Init /\ [][NextCards]_vars

\* One card of each screen, and a wall clock that can also be set back.
NextWallClock ==
    \/ NextP(OneCard)
    \/ SetClockBack(OneCard)
    \/ \E e \in registry : TickBehind(e)

SpecWallClock == Init /\ [][NextWallClock]_vars

\* The positions a drum gesture is released at under SpecPicker: around both
\* ends of the drum.
RawEnds(unit) ==
    ((0 - RawSlack)..RawSlack) \cup ((UnitMax(unit) - RawSlack)..(UnitMax(unit) + RawSlack))

\* The duration inputs of the first card, over the pickers' whole range.
NextPicker ==
    \/ \E key \in ModeKeys : ShowTimerScreen(Picker, key)
    \/ \E i \in Operated(Picker), unit \in Units, dir \in {-1, 1} :
          ArrowClick(Picker, i, unit, dir)
    \/ \E i \in Operated(Picker), unit \in Units : DragStart(i, unit)
    \/ \E i \in 1..Len(objs), unit \in Units : \E raw \in RawEnds(unit) :
          DragEndRaw(Picker, i, unit, raw)

\* The AlarmSound alone: play() and stop() called in any order, as the timers
\* call them, and the callbacks of its oscillators and timeouts.
AlarmFrame == UNCHANGED <<variant, audioOk, now, screen, timers, objs, registry, drag,
                          resume, setBacks, worker>>

PlayingArg(a) == IF a.playing THEN "playing" ELSE "stopped"

\* alarm.play()
AlarmPlayCall ==
    /\ AlarmFrame
    /\ IF InitRaises(alarm, audioOk)
       THEN /\ UNCHANGED <<alarm, sound>>
            /\ last' = [op |-> "play", t |-> 0, arg |-> PlayingArg(alarm), threw |-> TRUE]
       ELSE /\ alarm' = AlarmPlay(AlarmInit(alarm))
            /\ sound' = playTones(alarm, sound)
            /\ sound'.made <= MaxTones
            /\ last' = [op |-> "play", t |-> 0, arg |-> PlayingArg(alarm), threw |-> FALSE]

\* alarm.stop()
AlarmStopCall ==
    /\ AlarmFrame
    /\ alarm' = AlarmStop(alarm)
    /\ sound' = stopTones(sound)
    /\ last' = [op |-> "silence", t |-> 0, arg |-> PlayingArg(alarm), threw |-> FALSE]

\* An oscillator node ends, after its 0.15 s or after stop().
OscEnded(n) ==
    /\ AlarmFrame
    /\ UNCHANGED alarm
    /\ sound' = onended(alarm, sound, n)
    /\ last' = [op |-> "ended", t |-> 0, arg |-> PlayingArg(alarm), threw |-> FALSE]

\* A pending timeout fires.
TimeoutFires ==
    /\ sound.timeouts > 0
    /\ AlarmFrame
    /\ UNCHANGED alarm
    /\ sound' = onTimeout(alarm, sound)
    /\ sound'.made <= MaxTones
    /\ last' = [op |-> "timeout", t |-> 0, arg |-> PlayingArg(alarm), threw |-> FALSE]

NextAlarm ==
    \/ AlarmPlayCall
    \/ AlarmStopCall
    \/ \E n \in sound.nodes : OscEnded(n)
    \/ TimeoutFires

SpecAlarm == Init /\ [][NextAlarm]_vars

\* Click on the start button early enough for a countdown to end within the
\* clock's bound.
StartInTime(p, i) ==
    /\ now + objs[i].totalSeconds * 1000 <= p.clock * ClockStepMs
    /\ Start(i)

\* The ticks of timer i.
TickOf(i) == \E e \in registry : e.owner = i /\ Tick(e)

NextLive ==
    \/ AdvanceClock(LiveCard)
    \/ \E i \in 1..LiveMaxObjs : TickOf(i)
    \/ \E i \in Operated(LiveCard) : StartInTime(LiveCard, i)
    \/ \E i \in Operated(LiveCard) : Stop(i)
    \/ \E i \in Operated(LiveCard) : Reset(i)
    \/ \E i \in Operated(LiveCard) : Acknowledge(i)
    \/ \E i \in Operated(LiveCard), m \in TimerModes : ToggleMode(i, m)
    \/ \E i \in Operated(LiveCard), unit \in Units, dir \in {-1, 1} :
          ArrowClick(LiveCard, i, unit, dir)
    \/ \E i \in Operated(LiveCard), unit \in Units : DragStart(i, unit)
    \/ \E i \in 1..Len(objs), unit \in Units, val \in 0..LiveCard.target :
          DragEnd(LiveCard, i, unit, val)
    \/ \E key \in ModeKeys : ShowTimerScreen(LiveCard, key)
    \/ ShowModeSelect

\* The clock keeps advancing and every registered callback keeps firing;
\* the callback may miss any number of periods.
SpecLive ==
    /\ Init
    /\ [][NextLive]_vars
    /\ WF_vars(AdvanceClock(LiveCard))
    /\ \A i \in 1..LiveMaxObjs : WF_vars(TickOf(i))

\* The service worker alone: fetch events whose network fetch is fulfilled or
\* rejected, and the cache writes they leave behind.
WorkerFrame == UNCHANGED <<variant, audioOk, now, screen, timers, objs, registry, alarm,
                           drag, resume, setBacks, sound>>

\* A fetch event for r, the network answers.
FetchFulfilled(r) ==
    /\ worker.fetched < MaxFetches
    /\ WorkerFrame
    /\ worker' = fetchThen(worker, r)
    /\ last' = [op |-> "fetched", t |-> 0, arg |-> r, threw |-> FALSE]

\* A fetch event for r, the network fails.
FetchRejected(r) ==
    /\ WorkerFrame
    /\ worker' = fetchCatch(worker, r)
    /\ last' = [op |-> "offline", t |-> 0, arg |-> r, threw |-> FALSE]

\* A cache write that was handed off is carried out.
CachePut(r, k) ==
    /\ <<r, k>> \in worker.puts
    /\ WorkerFrame
    /\ worker' = cachePut(worker, r, k)
    /\ last' = [op |-> "put", t |-> 0, arg |-> r, threw |-> FALSE]

NextWorker ==
    \/ \E r \in Requests : FetchFulfilled(r)
    \/ \E r \in Requests : FetchRejected(r)
    \/ \E r \in Requests, k \in 1..MaxFetches : CachePut(r, k)

SpecWorker == Init /\ [][NextWorker]_vars

\* No handler of SpecPicker reaches the alarm: one audio platform is enough.
InitPicker == Init /\ audioOk

SpecPicker == InitPicker /\ [][NextPicker]_vars

----------------------------------------------------------------------------
(* Claims *)

HasInterval(reg, i) == \E e \in reg : e.owner = i

\* C1: with several cards on screen, no card's stopAlarm silences another
\* card's alarm: whenever some card is alarming, the shared alarm is playing.
C1_AlarmingCardIsHeard ==
    \A i \in Live : objs[i].alarming => alarm.playing

\* C2: the tick of a running countdown that computes a remaining time of 0
\* ends with totalSeconds = 0, running = false, the card alarming and the
\* alarm playing, and leaves no callback of that timer registered, so that no
\* later tick of the same start() triggers the alarm again.
C2_ExpiryTriggersOnce ==
    [][\A e \in registry :
          ( /\ last'.op = "tick"
            /\ last'.t = e.owner
            /\ objs[e.owner].mode = "down"
            /\ e.startSeconds - ((now - e.startTime) \div 1000) <= 0 )
          => /\ objs'[e.owner].totalSeconds = 0
             /\ ~objs'[e.owner].running
             /\ objs'[e.owner].intervalId = 0
             /\ objs'[e.owner].alarming
             /\ alarm'.playing
             /\ ~last'.threw
             /\ ~HasInterval(registry', e.owner)]_vars

C2_Witness ==
    /\ last.op = "tick"
    /\ objs[last.t].alarming
    /\ objs[last.t].totalSeconds = 0
    /\ ~objs[last.t].running
    /\ alarm.playing

\* C3: start() captures the clock and totalSeconds, and every tick of the run
\* sets totalSeconds to startSeconds + floor((now - startTime)/1000) when
\* counting up and to max(0, startSeconds - floor((now - startTime)/1000))
\* when counting down, whatever ticks came before.
C3_TickIsFunctionOfClock ==
    /\ [][\A i \in Live :
            (last'.op = "start" /\ last'.t = i /\ ~objs[i].running /\ objs'[i].running)
            => \E e \in registry' :
                  /\ e.owner = i
                  /\ e.id = objs'[i].intervalId
                  /\ e.startTime = now
                  /\ e.startSeconds = objs[i].totalSeconds]_vars
    /\ [][\A e \in registry :
            (last'.op = "tick" /\ last'.t = e.owner)
            => LET secs == (now - e.startTime) \div 1000
               IN objs'[e.owner].totalSeconds =
                     IF objs[e.owner].mode = "up"
                     THEN e.startSeconds + secs
                     ELSE IF e.startSeconds - secs > 0 THEN e.startSeconds - secs ELSE 0]_vars

C3_Witness ==
    /\ last.op = "tick"
    /\ objs[last.t].mode = "up"
    /\ objs[last.t].running
    /\ objs[last.t].totalSeconds = 2
    /\ \E e \in registry : e.owner = last.t /\ e.startSeconds = 1 /\ now - e.startTime = 1000

\* C4: after destroy() no periodic callback of the timer is registered, the
\* timer is neither running nor alarming and stays so, and no tick and no
\* advance of the clock changes anything of it.
C4_DestroyedTimerIsQuiet ==
    /\ [](\A i \in Destroyed :
             /\ ~HasInterval(registry, i)
             /\ ~objs[i].running
             /\ objs[i].intervalId = 0
             /\ ~objs[i].alarming)
    /\ [][\A i \in Destroyed :
             last'.op \in {"tick", "clock"} => objs'[i] = objs[i]]_vars

C4_Witness ==
    /\ last.op = "select"
    /\ last.t = 1
    /\ now > 0
    /\ Destroyed # {}
    /\ registry = {}

\* C5: after any sequence of screen switches and timer operations every
\* registered callback belongs to a timer of the current list, the list holds
\* the mode's count of timers (none on the selection screen), the timers that
\* left the screen are stopped, and right after a switch nothing is
\* registered, the alarm is silent and the new timers are fresh.
C5_NoLeakedCallbacks ==
    /\ \A e \in registry : \E k \in 1..Len(timers) : timers[k] = e.owner
    /\ Len(timers) = (IF screen = "select" THEN 0 ELSE ModeCount(variant, screen))
    /\ \A k, l \in 1..Len(timers) : timers[k] = timers[l] => k = l
    /\ \A i \in Destroyed : ~objs[i].running /\ ~objs[i].alarming
    /\ last.op \in {"show", "select"} =>
          /\ registry = {}
          /\ ~alarm.playing
          /\ \A i \in Live : objs[i] = NewTimer(variant)

C5_Witness ==
    /\ last.op = "show"
    /\ last.t = 2
    /\ screen = "isgd"
    /\ Len(objs) = 3
    /\ registry = {}

\* C6: an unavailable audio capability is swallowed and the timer works
\* without sound: start() leaves the timer running unless it is a countdown
\* at 0.
C6_AudioFailureIsSwallowed ==
    last.op = "start" =>
        \/ objs[last.t].running
        \/ objs[last.t].mode = "down" /\ objs[last.t].totalSeconds <= 0

\* C7: reset() in any state leaves the timer idle: not alarming, not running,
\* no callback registered, totalSeconds at targetSeconds when counting down
\* and at 0 when counting up, mode and targetSeconds as they were.
C7_ResetLeavesIdle ==
    [][\A i \in Live :
          (last'.op = "reset" /\ last'.t = i)
          => /\ ~objs'[i].alarming
             /\ ~objs'[i].running
             /\ objs'[i].intervalId = 0
             /\ ~HasInterval(registry', i)
             /\ objs'[i].mode = objs[i].mode
             /\ objs'[i].targetSeconds = objs[i].targetSeconds
             /\ objs'[i].totalSeconds =
                   (IF objs[i].mode = "down" THEN objs[i].targetSeconds ELSE 0)]_vars

C7_Witness ==
    /\ last.op = "reset"
    /\ objs[last.t].mode = "down"
    /\ objs[last.t].targetSeconds = 2
    /\ objs[last.t].totalSeconds = 2
    /\ now >= 1000
    /\ alarm.ctx
    /\ registry = {}

\* C8: the mode toggle's listener changes nothing while the timer runs, and
\* a click on the toggle then leaves mode, totalSeconds, targetSeconds,
\* running and the registered callback as they were, and the alarm too unless
\* the card's own listener acknowledges the card's alarm; the mode of a
\* running timer never changes; a click on the toggle of a timer that does
\* not run sets the mode and leaves the timer as reset() does.
C8_ModeChangeOnlyWhenStopped ==
    /\ [](\A i \in Live : \A m \in TimerModes :
             objs[i].running => toggleClick(variant, World, i, m) = World)
    /\ [][\A i \in Live :
            (last'.op = "toggle" /\ last'.t = i /\ objs[i].running)
            => /\ objs'[i].mode = objs[i].mode
               /\ objs'[i].totalSeconds = objs[i].totalSeconds
               /\ objs'[i].targetSeconds = objs[i].targetSeconds
               /\ objs'[i].running
               /\ objs'[i].intervalId = objs[i].intervalId
               /\ registry' = registry
               /\ ~objs[i].alarming => (objs' = objs /\ alarm' = alarm)]_vars
    /\ [][\A i \in 1..Len(objs) :
            (objs[i].running /\ objs'[i].running) => objs'[i].mode = objs[i].mode]_vars
    /\ [][\A i \in Live :
            (last'.op = "toggle" /\ last'.t = i /\ ~objs[i].running)
            => /\ objs'[i].mode = last'.arg
               /\ ~objs'[i].running
               /\ ~objs'[i].alarming
               /\ ~HasInterval(registry', i)
               /\ objs'[i].targetSeconds = objs[i].targetSeconds
               /\ objs'[i].totalSeconds =
                     (IF last'.arg = "down" THEN objs[i].targetSeconds ELSE 0)]_vars

C8_Witness ==
    /\ last.op = "toggle"
    /\ last.arg = "up"
    /\ objs[last.t].running
    /\ objs[last.t].mode = "down"
    /\ objs[last.t].totalSeconds = 1

\* C9: while a timer is running, no duration input (arrow step or drum value
\* change) changes setH, setM, setS, targetSeconds or totalSeconds.
C9_NoDurationChangeWhileRunning ==
    [][\A i \in Live :
          (last'.op \in {"arrow", "dragend"} /\ last'.t = i /\ objs[i].running)
          => /\ objs'[i].setH = objs[i].setH
             /\ objs'[i].setM = objs[i].setM
             /\ objs'[i].setS = objs[i].setS
             /\ objs'[i].targetSeconds = objs[i].targetSeconds
             /\ objs'[i].totalSeconds = objs[i].totalSeconds]_vars

\* C10: start() on a countdown whose totalSeconds is 0 or less changes
\* nothing: the timer does not run, no callback is registered and the alarm
\* is not triggered, also when the card is still alarming at 0.
C10_StartAtZeroIsNoOp ==
    [][\A i \in Live :
          ( /\ last'.op = "start"
            /\ last'.t = i
            /\ ~objs[i].running
            /\ objs[i].mode = "down"
            /\ objs[i].totalSeconds <= 0 )
          => /\ objs' = objs
             /\ ~objs'[i].running
             /\ registry' = registry
             /\ alarm'.playing = alarm.playing]_vars

C10_Witness ==
    /\ last.op = "start"
    /\ objs[last.t].mode = "down"
    /\ objs[last.t].totalSeconds = 0
    /\ objs[last.t].alarming
    /\ ~objs[last.t].running
    /\ ~HasInterval(registry, last.t)

\* C11: stop() on a timer that does not run changes nothing; stop() on a
\* running timer clears its interval and sets running to false, and leaves
\* totalSeconds, targetSeconds, the picker values, mode, the card's alarming
\* class, the alarm and every other timer as they were.
C11_StopFrame ==
    [][\A i \in Live :
          (last'.op = "stop" /\ last'.t = i)
          => IF ~objs[i].running
             THEN objs' = objs /\ registry' = registry /\ alarm' = alarm
             ELSE /\ ~objs'[i].running
                  /\ objs'[i].intervalId = 0
                  /\ registry' = {e \in registry : e.owner # i}
                  /\ objs'[i].totalSeconds = objs[i].totalSeconds
                  /\ objs'[i].targetSeconds = objs[i].targetSeconds
                  /\ objs'[i].setH = objs[i].setH
                  /\ objs'[i].setM = objs[i].setM
                  /\ objs'[i].setS = objs[i].setS
                  /\ objs'[i].mode = objs[i].mode
                  /\ objs'[i].alarming = objs[i].alarming
                  /\ alarm' = alarm
                  /\ \A j \in 1..Len(objs) : j # i => objs'[j] = objs[j]]_vars

C11_Witness ==
    /\ last.op = "stop"
    /\ ~objs[last.t].running
    /\ objs[last.t].mode = "down"
    /\ objs[last.t].targetSeconds = 2
    /\ objs[last.t].totalSeconds = 1
    /\ ~HasInterval(registry, last.t)

\* C12: after a stop() at totalSeconds v and the next start() at clock t1,
\* with nothing but the clock and acknowledgements in between, the start()
\* leaves totalSeconds at v and every tick of the new run sets totalSeconds
\* to v + floor((now - t1)/1000) when counting up and to
\* max(0, v - floor((now - t1)/1000)) when counting down.
C12_StopThenStartResumes ==
    /\ [][\A i \in Live :
            ( /\ resume.t = i
              /\ resume.t1 < 0
              /\ last'.op = "start"
              /\ last'.t = i
              /\ objs'[i].running )
            => /\ objs[i].totalSeconds = resume.v
               /\ objs'[i].totalSeconds = resume.v]_vars
    /\ [][\A i \in Live :
            ( /\ resume.t = i
              /\ resume.t1 >= 0
              /\ last'.op = "tick"
              /\ last'.t = i )
            => LET secs == (now - resume.t1) \div 1000
               IN objs'[i].totalSeconds =
                     IF objs[i].mode = "up"
                     THEN resume.v + secs
                     ELSE IF resume.v - secs > 0 THEN resume.v - secs ELSE 0]_vars

C12_Witness ==
    /\ last.op = "tick"
    /\ resume.t = last.t
    /\ resume.v = 1
    /\ resume.t1 = 1000
    /\ now = 2000
    /\ objs[last.t].mode = "up"
    /\ objs[last.t].targetSeconds = 0
    /\ objs[last.t].totalSeconds = 2

\* C13: totalSeconds >= 0 for every timer in every reachable state, whatever
\* the clock reads when a tick fires.
C13_TotalSecondsNonNegative ==
    \A i \in 1..Len(objs) : objs[i].totalSeconds >= 0

\* C14: within one run, from start() to the stop or expiry that ends it, no
\* step moves totalSeconds against the mode's direction: a countdown's value
\* never rises and stays at 0 or above, a count-up's value never falls.
C14_RunIsMonotone ==
    [][\A i \in Live :
          (objs[i].running /\ (objs'[i].running \/ last'.op \in {"tick", "stop"}))
          => IF objs[i].mode = "up"
             THEN objs'[i].totalSeconds >= objs[i].totalSeconds
             ELSE /\ objs'[i].totalSeconds <= objs[i].totalSeconds
                  /\ objs'[i].totalSeconds >= 0]_vars

\* C15: a duration step of +1 or -1 on a unit wraps within the unit's range
\* (hours 23 + 1 = 0 and 0 - 1 = 23; minutes and seconds 59 + 1 = 0 and
\* 0 - 1 = 59) and leaves the other units alone; in every reachable state
\* setH is in 0..23 and setM and setS are in 0..59.
C15_StepWrapsWithinRange ==
    /\ [](\A i \in 1..Len(objs) :
             /\ objs[i].setH \in 0..23
             /\ objs[i].setM \in 0..59
             /\ objs[i].setS \in 0..59)
    /\ [][\A i \in Live : \A unit \in Units : \A dir \in {-1, 1} :
            (last'.op = "arrow" /\ last'.t = i /\ last'.arg = ArrowArg(unit, dir)
               /\ ~objs[i].running)
            => LET top == IF unit = "h" THEN 23 ELSE 59
                   old == GetUnit(objs[i], unit)
               IN /\ GetUnit(objs'[i], unit) =
                        IF dir = 1 THEN (IF old = top THEN 0 ELSE old + 1)
                        ELSE (IF old = 0 THEN top ELSE old - 1)
                  /\ \A u \in Units \ {unit} :
                        GetUnit(objs'[i], u) = GetUnit(objs[i], u)]_vars

C15_Witness ==
    /\ last.op = "arrow"
    /\ last.arg = "h-"
    /\ objs[last.t].setH = 23
    /\ objs[last.t].setM = 0
    /\ objs[last.t].setS = 59

\* C16: right after a duration input on a countdown timer that does not run,
\* targetSeconds = totalSeconds = h*3600 + m*60 + s for the values (h, m, s)
\* the pickers then hold, over the pickers' whole range; and targetSeconds =
\* setH*3600 + setM*60 + setS in every reachable state.
C16_DurationArithmetic ==
    /\ [](\A i \in 1..Len(objs) :
             objs[i].targetSeconds =
                objs[i].setH * 3600 + objs[i].setM * 60 + objs[i].setS)
    /\ [][\A i \in Live :
            ( /\ last'.op \in {"arrow", "dragend"}
              /\ last'.t = i
              /\ ~objs[i].running
              /\ objs[i].mode = "down" )
            => LET h == objs'[i].setH
                   m == objs'[i].setM
                   sec == objs'[i].setS
               IN /\ h \in 0..23
                  /\ m \in 0..59
                  /\ sec \in 0..59
                  /\ objs'[i].targetSeconds = h * 3600 + m * 60 + sec
                  /\ objs'[i].totalSeconds = h * 3600 + m * 60 + sec]_vars

C16_Witness ==
    /\ last.op = "arrow"
    /\ objs[last.t].setH = 23
    /\ objs[last.t].setM = 59
    /\ objs[last.t].setS = 59
    /\ objs[last.t].targetSeconds = 86399
    /\ objs[last.t].totalSeconds = 86399

\* C17: a duration input sets totalSeconds to the new targetSeconds only on a
\* countdown timer that does not run; on a timer counting up, and on a
\* running timer, it leaves totalSeconds as it was.
C17_DurationInputFrame ==
    [][\A i \in Live :
          (last'.op \in {"arrow", "dragend"} /\ last'.t = i)
          => IF objs[i].mode = "down" /\ ~objs[i].running
             THEN objs'[i].totalSeconds = objs'[i].targetSeconds
             ELSE objs'[i].totalSeconds = objs[i].totalSeconds]_vars

\* C18: each card is in exactly one of Idle, Running and Alarming: no timer
\* is running while its card is alarming, and an alarming card's
\* totalSeconds is 0.
C18_OneStatePerCard ==
    \A i \in Live :
        /\ ~(objs[i].running /\ objs[i].alarming)
        /\ objs[i].alarming => objs[i].totalSeconds = 0

\* C19: a timer counting up never alarms: a tick of a count-up run leaves the
\* timer running, the card not alarming and the alarm as it was, whatever
\* value it computes, and no card in count-up mode is ever alarming.
C19_CountUpNeverAlarms ==
    /\ [](\A i \in 1..Len(objs) : objs[i].mode = "up" => ~objs[i].alarming)
    /\ [][\A i \in Live :
            (last'.op = "tick" /\ last'.t = i /\ objs[i].mode = "up")
            => /\ objs'[i].running
               /\ ~objs'[i].alarming
               /\ HasInterval(registry', i)
               /\ alarm' = alarm]_vars

C19_Witness ==
    /\ last.op = "tick"
    /\ objs[last.t].mode = "up"
    /\ objs[last.t].running
    /\ objs[last.t].totalSeconds <= 0
    /\ ~objs[last.t].alarming
    /\ \E e \in registry : e.owner = last.t /\ e.startSeconds = 0 /\ now # e.startTime

\* C20: play() while playing and stop() while stopped change nothing: play()
\* twice leaves what play() once leaves and starts no second tone, stop()
\* twice leaves what stop() once leaves; and no step creates a tone unless
\* playing is true after it.
C20_PlayAndStopIdempotent ==
    /\ [][(last'.op = "play" /\ alarm.playing)
            => (alarm' = alarm /\ sound' = sound)]_vars
    /\ [][(last'.op = "silence" /\ ~alarm.playing)
            => (alarm' = alarm /\ sound' = sound)]_vars
    /\ [][sound'.made > sound.made
            => (alarm'.playing /\ sound'.made = sound.made + 1)]_vars

C20_Witness ==
    /\ last.op = "play"
    /\ last.arg = "playing"
    /\ alarm.playing
    /\ sound.made = 2
    /\ Cardinality(sound.oscillators) = 1

\* Whether the card's time display is on show.  The drum build shows either
\* the pickers or the display (_showPicker, _showDisplay); the arrow builds
\* always show the display.
DisplayShown(v, o) == v # "drum" \/ o.hidden

\* C21: after every operation or tick that changes a timer's totalSeconds,
\* the time display on show reads h:m:s with h = totalSeconds div 3600,
\* m = (totalSeconds mod 3600) div 60 and s = totalSeconds mod 60, m and s in
\* 0..59 and h*3600 + m*60 + s = totalSeconds.
C21_DisplayMatchesState ==
    [][\A i \in Live :
          ( /\ last'.op \notin {"show", "select"}
            /\ objs'[i].totalSeconds # objs[i].totalSeconds
            /\ DisplayShown(variant, objs'[i]) )
          => LET t == objs'[i].totalSeconds
                 h == objs'[i].display[1]
                 m == objs'[i].display[2]
                 sec == objs'[i].display[3]
             IN /\ h = t \div 3600
                /\ m = (t % 3600) \div 60
                /\ sec = t % 60
                /\ m \in 0..59
                /\ sec \in 0..59
                /\ h * 3600 + m * 60 + sec = t]_vars

\* C22: when the network fetch succeeds, the cache holds the copy of the
\* response by the time the response is returned to the caller; when the
\* network fetch fails, the caller receives the response the cache holds for
\* the request, if it holds one.
C22_NetworkFirstThenCache ==
    /\ [][\A r \in Requests :
            (last'.op = "fetched" /\ last'.arg = r)
            => /\ worker'.served.from = "network"
               /\ worker'.cache[r] = worker'.served.v]_vars
    /\ [][\A r \in Requests :
            (last'.op = "offline" /\ last'.arg = r /\ worker.cache[r] # NoResponse)
            => /\ worker'.served.req = r
               /\ worker'.served.v = worker.cache[r]]_vars

\* C23: in every reachable state a timer has a registered periodic callback
\* if and only if it is running, intervalId is set exactly then and names
\* that callback, and no timer has two; start() on a running timer registers
\* nothing and leaves the start anchor and totalSeconds as they were.
C23_OneCallbackIffRunning ==
    /\ [](\A i \in 1..Len(objs) :
             /\ objs[i].running <=> HasInterval(registry, i)
             /\ objs[i].running <=> objs[i].intervalId # 0
             /\ \A e, f \in registry : (e.owner = i /\ f.owner = i) => e = f
             /\ \A e \in registry : e.owner = i => e.id = objs[i].intervalId)
    /\ [][\A i \in Live :
            (last'.op = "start" /\ last'.t = i /\ objs[i].running)
            => /\ registry' = registry
               /\ objs'[i].running
               /\ objs'[i].intervalId = objs[i].intervalId
               /\ objs'[i].totalSeconds = objs[i].totalSeconds]_vars

C23_Witness ==
    /\ last.op = "start"
    /\ objs[last.t].running
    /\ objs[last.t].mode = "down"
    /\ objs[last.t].totalSeconds = 1
    /\ \E e \in registry :
          e.owner = last.t /\ e.startSeconds = 2 /\ e.startTime = 0 /\ now = 1000

\* C24: a running countdown that is not stopped, reset or destroyed
\* eventually has its card alarming with totalSeconds = 0, when the clock
\* keeps advancing and the timer's callback keeps firing, however many
\* periods the callback misses before the expiry.
C24_CountdownEventuallyAlarms ==
    \A i \in 1..LiveMaxObjs :
        (i <= Len(objs) /\ objs[i].running /\ objs[i].mode = "down")
        ~> \/ i <= Len(objs) /\ objs[i].alarming /\ objs[i].totalSeconds = 0
              /\ ~objs[i].running
           \/ last.op \in {"stop", "reset"} /\ last.t = i
           \/ last.op \in {"show", "select"}

C24_Witness ==
    /\ last.op = "tick"
    /\ objs[last.t].alarming
    /\ objs[last.t].totalSeconds = 0
    /\ objs[last.t].targetSeconds = 2
    /\ ~objs[last.t].running
    /\ now = 2000
    /\ registry = {}

\* C25: the alarm never sounds without an alarming card: whenever the alarm
\* is playing, some timer of the current list has its card alarming; the
\* alarm is silent on the mode-selection screen.
C25_SoundHasAlarmingCard ==
    /\ alarm.playing => \E i \in Live : objs[i].alarming
    /\ screen = "select" => ~alarm.playing

C25_Witness ==
    /\ alarm.playing
    /\ Len(timers) = 2
    /\ ~objs[timers[1]].alarming
    /\ objs[timers[2]].alarming
    /\ last.op = "ack"
    /\ last.t = timers[1]

\* C26: under any interleaving of play(), stop(), the oscillators' onended
\* callbacks and the re-beep timeouts at most one beep chain is alive: never
\* more than one tone or re-beep timeout is pending, and never more than one
\* oscillator is on the list, also when play() follows a stop() whose tone
\* has not ended or whose timeout has not fired yet.
C26_SingleBeepChain ==
    /\ Cardinality(sound.nodes) + sound.timeouts <= 1
    /\ Cardinality(sound.oscillators) <= 1

\* C27: acknowledging an alarm, stopAlarm() on an alarming card, clears the
\* card's alarming state and stops the alarm, and leaves the timer's
\* totalSeconds, which is 0, its targetSeconds, its mode and running, which is
\* false, as they were; stopAlarm() on a card that is not alarming, and a tap
\* on such a card, leave the timer's state as it was.
C27_AcknowledgeFrame ==
    /\ [](\A i \in Live :
             LET w == stopAlarm(World, i)
             IN /\ ~w.objs[i].alarming
                /\ ~w.alarm.playing
                /\ w.objs[i] = [objs[i] EXCEPT !.alarming = FALSE]
                /\ w.registry = registry)
    /\ [][\A i \in Live :
            (last'.op = "ack" /\ last'.t = i /\ objs[i].alarming)
            => /\ ~objs'[i].alarming
               /\ ~alarm'.playing
               /\ objs[i].totalSeconds = 0
               /\ objs'[i].totalSeconds = 0
               /\ objs'[i].targetSeconds = objs[i].targetSeconds
               /\ objs'[i].mode = objs[i].mode
               /\ ~objs[i].running
               /\ ~objs'[i].running
               /\ registry' = registry]_vars
    /\ [][\A i \in Live :
            (last'.op = "ack" /\ last'.t = i /\ ~objs[i].alarming)
            => /\ objs' = objs
               /\ registry' = registry
               /\ alarm' = alarm]_vars

====
